---- MODULE Spec2Model ----
(***************************************************************************)
(* Connection adapters of streamlit: BaseConnection (lazy, invalidatable   *)
(* handle), the SQL adapter (no lock) and the Snowpark adapter (RLock),    *)
(* with the cached-then-retried query() of both adapters and session().    *)
(*                                                                         *)
(* Threads share one adapter instance.  Every read or write of the shared  *)
(* fields (_raw_instance, the lock, the cache) is one step, so that the    *)
(* interleavings of the check-then-act in BaseConnection._instance and of  *)
(* the unlocked reset() of the retry hook are all explored.                *)
(***************************************************************************)
EXTENDS Integers, FiniteSets, Sequences, TLC

\* ---------------------------------------------------------------- bounds
NumThreads == 2      \* threads sharing the adapter
MaxOps == 3          \* operations (query, session, reset) started on the adapter
MaxTime == 1         \* ticks of the cache clock
MaxScope == 2        \* nesting depth of session() scopes of one thread
MaxFaults == 3       \* connect and execution calls that raise
MaxLiveOps == 2      \* operations started in the runs checked for termination
MaxRuns == 1         \* script_run_count of a saved session
MaxStoreOps == 3     \* save, get and delete calls made on the session storage
TickSeconds == 1800  \* seconds the clock of the store advances in one step
MaxClock == 5400     \* the clock of the store stops here

\* ------------------------------------------------------ program constants
MaxAttempts == 3     \* stop_after_attempt(3)
ExpirySeconds == 3600  \* ex=60 * 60

Threads == 1..NumThreads
Kinds == {"SQL", "Snowpark"}
SqlTexts == {1, 2}           \* two different SQL texts
TTLs == {0, 1}               \* ttl=None (0: cached indefinitely) or 1 tick
KwargSets == {1, 2}          \* construction keyword arguments
NoHandle == 0                \* _raw_instance is None
NoThread == 0
NoExpiry == -1

VARIABLES
    kind,        \* the adapter class of the shared instance
    built,       \* the constructor has returned an adapter
    kwargs,      \* self._kwargs
    raw,         \* self._raw_instance (NoHandle: None)
    connArgs,    \* keyword arguments of the latest connect call
    lockOwner,   \* Snowpark._lock: owning thread
    lockCount,   \* Snowpark._lock: recursion level
    cache,       \* cache_data entries of _query: key -> entry
    now,         \* clock of the cache
    live,        \* handles produced by connect and not yet invalidated
    faults,      \* connect and execution calls that raised so far
    resetRun,    \* reset() calls since a handle was last stored (counted to 2)
    pc,          \* position of each thread
    op,          \* operation each thread runs
    sql,         \* query argument
    ttl,         \* query argument
    attempt,     \* attempt number of the retry loop
    tmp,         \* handle returned by connect, not yet stored
    h,           \* handle returned by self._instance to _query
    yielded,     \* handle session() yielded to the scope the thread is inside
    out,         \* outcome of the latest operation of each thread
    scope,       \* session() scopes the thread is inside
    calls,       \* operations started on the adapter so far
    cnt,         \* per call: executions, resets, connects; whether a result of the SQL
                 \* text was cached at the start; the exceptions the retry suppressed
    secrets,     \* _connect: the keys of self._secrets
    iterOrder,   \* _connect: the order in which this interpreter iterates the set
                 \* _REQUIRED_CONNECTION_PARAMS
    cfgFile,     \* _connect: the legacy config file ~/.snowsql/config
    connRes,     \* _connect: its outcome
    redisDb,     \* RedisSessionStorage: the keys of the redis database
    ufm,         \* RedisSessionStorage._uploaded_file_manager (0: None)
    mec,         \* RedisSessionStorage._message_enqueued_callback (0: None)
    clock,       \* seconds on the clock of the redis server
    got,         \* the storage call that just ended and its outcome
    lastSave,    \* per session id: the SessionInfo of the latest save, its time
                 \* and the number of saves, while no delete followed them
    storeOps,    \* save, get and delete calls made so far
    failed,      \* per thread, between a failed attempt and the retry's hook: the
                 \* handle the attempt executed against (NoHandle: none)
    owner,       \* per cache key: the adapter instance whose execution produced
                 \* the entry (0: none)
    otherOut     \* outcome of the latest query on a second adapter instance

shared == <<kind, built, kwargs, raw, connArgs, lockOwner, lockCount,
            cache, now, live, faults, resetRun>>
local == <<pc, op, sql, ttl, attempt, tmp, h, yielded, out, scope, calls, cnt>>
vars == <<kind, built, kwargs, raw, connArgs, lockOwner, lockCount,
          cache, now, live, faults, resetRun, pc, op, sql, ttl, attempt, tmp, h, yielded, out, scope, calls, cnt,
          secrets, iterOrder, cfgFile, connRes,
          redisDb, ufm, mec, clock, got, lastSave, storeOps, failed, owner, otherOut>>
otherVars == <<owner, otherOut>>
connectVars == <<secrets, iterOrder, cfgFile, connRes>>
storeVars == <<redisDb, ufm, mec, clock, got, lastSave, storeOps>>

\* ------------------------------------------------------------- outcomes
NoOut == [st |-> "none", res |-> <<0, 0>>, att |-> 0, ek |-> "none"]
NoOther == [st |-> "none", sql |-> 0, res |-> <<0, 0>>, hit |-> FALSE, from |-> 0]
OkOut(r, a) == [st |-> "ok", res |-> r, att |-> a, ek |-> "none"]
ErrOut(k, a) == [st |-> "err", res |-> <<0, 0>>, att |-> a, ek |-> k]
Raised(k, a) == [st |-> "raised", res |-> <<0, 0>>, att |-> a, ek |-> k]
ZeroCnt == [exec |-> 0, reset |-> 0, conn |-> 0, connfail |-> 0, hit |-> FALSE, supp |-> {}]

\* ---------------------------------------------------------------- cache
NoEntry == [res |-> <<0, 0>>, exp |-> -2]

\* The arguments of the cached function _query: the SQL text.
QueryKeyIgnoringSql(s) == 1
QueryKey(s) == s

\* An entry is served while it has not expired.
Fresh(e) == e # NoEntry /\ (e.exp = NoExpiry \/ now < e.exp)
CacheGet(k) == IF Fresh(cache[k]) THEN cache[k] ELSE NoEntry
CachePut(k, r, t) == [cache EXCEPT ![k] = [res |-> r, exp |-> IF t = 0 THEN NoExpiry ELSE now + t]]

\* ------------------------------------------------------- handles, results
\* connect returns a new object each time: it is named by the least number that
\* names no handle still referenced (stored, held by a thread, or live).
HandlesInUse == {raw} \cup live \cup {tmp[t] : t \in Threads} \cup {h[t] : t \in Threads}
                    \cup {yielded[t] : t \in Threads} \cup {failed[t] : t \in Threads}
NewHandle == CHOOSE i \in 1..(Cardinality(HandlesInUse) + 1) :
                 /\ i \notin HandlesInUse
                 /\ \A j \in 1..(i - 1) : j \in HandlesInUse

\* An execution returns a new table: <<SQL text, number>>, the number being the
\* least one of no result still referenced (cached, or returned to a thread).
ResultsInUse == {cache[k].res[2] : k \in DOMAIN cache} \cup {out[t].res[2] : t \in Threads}
                    \cup {otherOut.res[2]}
NewResult(s) == <<s, CHOOSE i \in 1..(Cardinality(ResultsInUse) + 1) :
                         /\ i \notin ResultsInUse
                         /\ \A j \in 1..(i - 1) : j \in ResultsInUse>>

\* ------------------------------------------------------------------ lock
UsesLock == kind = "Snowpark"

\* threading.RLock: free, or owned by the acquiring thread
CanAcquireNotReentrant(t) == lockOwner = NoThread
CanAcquire(t) == lockOwner = NoThread \/ lockOwner = t

Acquired(t) ==
    /\ lockOwner' = t
    /\ lockCount' = lockCount + 1

Released(t) ==
    /\ lockCount' = lockCount - 1
    /\ lockOwner' = IF lockCount = 1 THEN NoThread ELSE lockOwner

\* leaving `with self._lock:` (nothing to leave in the SQL adapter)
LeaveLock(t) ==
    IF UsesLock THEN Released(t) ELSE UNCHANGED <<lockOwner, lockCount>>

\* ------------------------------------------------------------ the threads
Idle(t) == pc[t] = "idle"
CanStart(t) == built /\ Idle(t) /\ calls < MaxOps

\* ------------------------------------------------ _connect of the adapters
SqlRequired == {"dialect", "username", "host"}       \* _REQUIRED_CONNECTION_PARAMS
SqlSecretKeys == {"url"} \cup SqlRequired
SnowparkRequired == {"account", "user"}              \* _REQUIRED_CONNECTION_PARAMS
SnowparkSecretKeys == SnowparkRequired \cup {"role"}
FileKeys == {"accountname", "username", "dbname"}    \* keys of [connections]

\* The orders in which a set can be iterated: Python fixes the order of a set
\* of strings per interpreter process (string hashes are randomized), not per
\* program.
Orders(S) == {f \in [1..Cardinality(S) -> S] : \A i, j \in DOMAIN f : i # j => f[i] # f[j]}

NoFile == [exists |-> FALSE, section |-> FALSE, keys |-> {}]
Files == {NoFile} \cup {[exists |-> TRUE, section |-> FALSE, keys |-> {}]}
             \cup {[exists |-> TRUE, section |-> TRUE, keys |-> K] : K \in SUBSET FileKeys}

NoConnRes == [st |-> "none", field |-> "", fileRead |-> FALSE, params |-> {}]

\* `for p in _REQUIRED_CONNECTION_PARAMS: if p not in params: raise ...(p)`:
\* the first element of the iteration that is missing
Missing(ord, params) == {i \in DOMAIN ord : ord[i] \notin params}
FirstMissing(ord, params) ==
    ord[CHOOSE i \in Missing(ord, params) : \A j \in Missing(ord, params) : i <= j]

\* k.replace("name", "") on a key of the config file
StripName(k) ==
    CASE k = "accountname" -> "account"
      [] k = "username" -> "user"
      [] k = "dbname" -> "db"
      [] OTHER -> k

\* _load_from_snowsql_config_file, for a file that exists and has the section:
\* the keys without "name", and "db" renamed to "database"
LoadedKeys(f) ==
    LET stripped == {StripName(k) : k \in f.keys} IN
    IF "db" \in stripped THEN (stripped \ {"db"}) \cup {"database"} ELSE stripped

\* ------------------------------------------------ RedisSessionStorage
SessionIds == {1, 2}
UserKeys == {"a"}                      \* keys of st.session_state
WidgetKey == "$$GENERATED_WIDGET_KEY"  \* the entry of a widget without a key
Vals == {1, 2}
InstallationId == "inst"
NoneRef == 0                           \* None
Collaborators == {1}                   \* the objects the setters are given
CallerObj == 1                         \* an AppSession the runtime made
NewObj == 2                            \* an AppSession that get() constructs

\* session-state mappings: the user's keys with any value, with or without the
\* entry of a keyless widget
StateMaps ==
    {[k \in K |-> IF k \in UserKeys THEN v ELSE 1] :
        K \in SUBSET (UserKeys \cup {WidgetKey}), v \in Vals}

\* SessionInfo(client, session, script_run_count), with the fields of its
\* AppSession (id, _session_data, _user_info, _session_state)
SessionInfos ==
    [obj : {CallerObj}, client : {"ws"}, id : SessionIds, path : {"app.py"},
     cmd : {"streamlit run"}, user : {"u"}, runs : 0..MaxRuns, state : StateMaps]

NoBlob == [blob |-> <<>>, exp |-> 0]
NoGot == [op |-> "none", id |-> 0, st |-> "none", info |-> <<>>]
NoSave == [info |-> <<>>, at |-> -1, n |-> 0]

\* _session_redis_key
SessionRedisKey(id) == <<"session_info", InstallationId, id>>
RedisKeys == {SessionRedisKey(id) : id \in SessionIds}

\* SessionState.filtered_state: the session state without the entries of
\* widgets that have no key
FilteredState(st) == [k \in DOMAIN st \ {WidgetKey} |-> st[k]]

\* the session state of a newly constructed AppSession
NewSessionState == [k \in {} |-> 0]

\* _serialize_session: the pickled dict
SerializeSession(si) ==
    [session_id |-> si.id,
     main_script_path |-> si.path,
     command_line |-> si.cmd,
     script_run_count |-> si.runs,
     user_info |-> si.user,
     user_session_state |-> FilteredState(si.state)]

\* _deserialize_session after its two assertions: a new AppSession from the
\* session data and user info, its id replaced by the saved one, the saved
\* entries written over its session state; no client.
DeserializeSessionKeepingNewId(b) ==
    [obj |-> NewObj, client |-> "none", id |-> 0,
     path |-> b.main_script_path, cmd |-> b.command_line, user |-> b.user_info,
     runs |-> b.script_run_count,
     state |-> [k \in DOMAIN NewSessionState \cup DOMAIN b.user_session_state |->
                   IF k \in DOMAIN b.user_session_state
                   THEN b.user_session_state[k] ELSE NewSessionState[k]]]

DeserializeSession(b) ==
    [obj |-> NewObj, client |-> "none", id |-> b.session_id,
     path |-> b.main_script_path, cmd |-> b.command_line, user |-> b.user_info,
     runs |-> b.script_run_count,
     state |-> [k \in DOMAIN NewSessionState \cup DOMAIN b.user_session_state |->
                   IF k \in DOMAIN b.user_session_state
                   THEN b.user_session_state[k] ELSE NewSessionState[k]]]

StoreIdle ==
    /\ redisDb = [k \in RedisKeys |-> NoBlob]
    /\ ufm = NoneRef
    /\ mec = NoneRef
    /\ clock = 0
    /\ got = NoGot
    /\ lastSave = [i \in SessionIds |-> NoSave]
    /\ storeOps = 0

\* the adapter before its constructor runs
AdapterIdle ==
    /\ built = FALSE /\ kwargs = 0 /\ raw = NoHandle /\ connArgs = 0
    /\ lockOwner = NoThread /\ lockCount = 0
    /\ cache = [k \in SqlTexts |-> NoEntry] /\ now = 0 /\ live = {}
    /\ faults = 0 /\ resetRun = 0
    /\ pc = [t \in Threads |-> "idle"] /\ op = [t \in Threads |-> "none"]
    /\ sql = [t \in Threads |-> 1] /\ ttl = [t \in Threads |-> 0]
    /\ attempt = [t \in Threads |-> 0]
    /\ tmp = [t \in Threads |-> NoHandle] /\ h = [t \in Threads |-> NoHandle]
    /\ yielded = [t \in Threads |-> NoHandle]
    /\ out = [t \in Threads |-> NoOut] /\ scope = [t \in Threads |-> 0]
    /\ calls = 0 /\ cnt = [t \in Threads |-> ZeroCnt]
    /\ failed = [t \in Threads |-> NoHandle]
    /\ owner = [k \in SqlTexts |-> 0]
    /\ otherOut = NoOther

ConnectIdle ==
    /\ secrets = {}
    /\ iterOrder = <<>>
    /\ cfgFile = NoFile
    /\ connRes = NoConnRes

Init ==
    /\ ConnectIdle
    /\ StoreIdle
    /\ kind \in Kinds
    /\ built = FALSE
    /\ kwargs = 0
    /\ raw = NoHandle
    /\ connArgs = 0
    /\ lockOwner = NoThread
    /\ lockCount = 0
    /\ cache = [k \in SqlTexts |-> NoEntry]
    /\ now = 0
    /\ live = {}
    /\ faults = 0
    /\ resetRun = 0
    /\ pc = [t \in Threads |-> "idle"]
    /\ op = [t \in Threads |-> "none"]
    /\ sql = [t \in Threads |-> 1]
    /\ ttl = [t \in Threads |-> 0]
    /\ attempt = [t \in Threads |-> 0]
    /\ tmp = [t \in Threads |-> NoHandle]
    /\ h = [t \in Threads |-> NoHandle]
    /\ yielded = [t \in Threads |-> NoHandle]
    /\ out = [t \in Threads |-> NoOut]
    /\ scope = [t \in Threads |-> 0]
    /\ calls = 0
    /\ cnt = [t \in Threads |-> ZeroCnt]
    /\ failed = [t \in Threads |-> NoHandle]
    /\ owner = [k \in SqlTexts |-> 0]
    /\ otherOut = NoOther

\* Snowpark.__init__: `with self._lock:` is entered before the base constructor
\* runs; the SQL adapter has no lock and goes straight to the base constructor.
CtorEnterUnlocked(t, kw) ==
    /\ ~built /\ Idle(t) /\ \A u \in Threads : pc[u] # "ctor"
    /\ pc' = [pc EXCEPT ![t] = "ctor"]
    /\ op' = [op EXCEPT ![t] = "ctor"]
    /\ kwargs' = kw
    /\ out' = [out EXCEPT ![t] = NoOut]
    /\ cnt' = [cnt EXCEPT ![t] = ZeroCnt]
    /\ UNCHANGED <<lockOwner, lockCount>>
    /\ UNCHANGED <<kind, resetRun, faults, built, raw, connArgs, cache, now, live>>
    /\ UNCHANGED <<sql, ttl, attempt, tmp, h, yielded, scope, calls>>

CtorEnter(t, kw) ==
    /\ ~built /\ Idle(t) /\ \A u \in Threads : pc[u] # "ctor"
    /\ pc' = [pc EXCEPT ![t] = "ctor"]
    /\ op' = [op EXCEPT ![t] = "ctor"]
    /\ kwargs' = kw
    /\ out' = [out EXCEPT ![t] = NoOut]
    /\ cnt' = [cnt EXCEPT ![t] = ZeroCnt]
    /\ IF UsesLock THEN Acquired(t) ELSE UNCHANGED <<lockOwner, lockCount>>
    /\ UNCHANGED <<kind, resetRun, faults, built, raw, connArgs, cache, now, live>>
    /\ UNCHANGED <<sql, ttl, attempt, tmp, h, yielded, scope, calls>>

\* BaseConnection.__init__: self._raw_instance = self.connect(**kwargs); when
\* connect raises, the constructor raises and no adapter exists.
CtorConnectKeepingLock(t, ok) ==
    /\ pc[t] = "ctor"
    /\ ok \/ faults < MaxFaults
    /\ pc' = [pc EXCEPT ![t] = "idle"]
    /\ connArgs' = kwargs
    /\ IF ok THEN LeaveLock(t) ELSE UNCHANGED <<lockOwner, lockCount>>
    /\ IF ok
       THEN /\ built' = TRUE
            /\ raw' = NewHandle
            /\ resetRun' = 0
            /\ live' = live \cup {NewHandle}
            /\ out' = [out EXCEPT ![t] = OkOut(<<0, 0>>, 0)]
            /\ cnt' = [cnt EXCEPT ![t].conn = 1]
            /\ UNCHANGED <<kwargs, faults>>
       ELSE /\ kwargs' = 0
            /\ faults' = faults + 1
            /\ out' = [out EXCEPT ![t] = ErrOut("connect", 0)]
            /\ cnt' = [cnt EXCEPT ![t].connfail = 1]
            /\ UNCHANGED <<built, raw, live, resetRun>>
    /\ UNCHANGED <<kind, cache, now>>
    /\ UNCHANGED <<op, sql, ttl, attempt, tmp, h, yielded, scope, calls>>

CtorConnect(t, ok) ==
    /\ pc[t] = "ctor"
    /\ ok \/ faults < MaxFaults
    /\ pc' = [pc EXCEPT ![t] = "idle"]
    /\ connArgs' = kwargs
    /\ LeaveLock(t)
    /\ IF ok
       THEN /\ built' = TRUE
            /\ raw' = NewHandle
            /\ resetRun' = 0
            /\ live' = live \cup {NewHandle}
            /\ out' = [out EXCEPT ![t] = OkOut(<<0, 0>>, 0)]
            /\ cnt' = [cnt EXCEPT ![t].conn = 1]
            /\ UNCHANGED <<kwargs, faults>>
       ELSE /\ kwargs' = 0
            /\ faults' = faults + 1
            /\ out' = [out EXCEPT ![t] = ErrOut("connect", 0)]
            /\ cnt' = [cnt EXCEPT ![t].connfail = 1]
            /\ UNCHANGED <<built, raw, live, resetRun>>
    /\ UNCHANGED <<kind, cache, now>>
    /\ UNCHANGED <<op, sql, ttl, attempt, tmp, h, yielded, scope, calls>>

\* One run of the cached wrapper of _query up to the call of the wrapped
\* function: a fresh entry is returned, otherwise the function body is entered.
LookupNeedingHandle(t, s, tl, a) ==
    LET e == CacheGet(QueryKey(s)) IN
    IF e # NoEntry /\ raw # NoHandle
    THEN /\ pc' = [pc EXCEPT ![t] = "idle"]
         /\ out' = [out EXCEPT ![t] = OkOut(e.res, a)]
    ELSE /\ pc' = [pc EXCEPT ![t] = "enter"]
         /\ out' = [out EXCEPT ![t] = NoOut]

Lookup(t, s, tl, a) ==
    LET e == CacheGet(QueryKey(s)) IN
    IF e # NoEntry
    THEN /\ pc' = [pc EXCEPT ![t] = "idle"]
         /\ out' = [out EXCEPT ![t] = OkOut(e.res, a)]
    ELSE /\ pc' = [pc EXCEPT ![t] = "enter"]
         /\ out' = [out EXCEPT ![t] = NoOut]

\* query(sql, ttl): builds the retrying, cached _query and calls it.
StartQuery(t, s, tl) ==
    /\ CanStart(t)
    /\ op' = [op EXCEPT ![t] = "query"]
    /\ sql' = [sql EXCEPT ![t] = s]
    /\ ttl' = [ttl EXCEPT ![t] = tl]
    /\ attempt' = [attempt EXCEPT ![t] = 1]
    /\ calls' = calls + 1
    /\ cnt' = [cnt EXCEPT ![t] = [ZeroCnt EXCEPT !.hit = Fresh(cache[s])]]
    /\ Lookup(t, s, tl, 1)
    /\ UNCHANGED shared
    /\ UNCHANGED <<tmp, h, yielded, scope>>

\* session(): a context manager around self._instance.
EnterSession(t) ==
    /\ CanStart(t) /\ scope[t] < MaxScope
    /\ op' = [op EXCEPT ![t] = "session"]
    /\ pc' = [pc EXCEPT ![t] = "enter"]
    /\ calls' = calls + 1
    /\ cnt' = [cnt EXCEPT ![t] = ZeroCnt]
    /\ out' = [out EXCEPT ![t] = NoOut]
    /\ UNCHANGED shared
    /\ UNCHANGED <<sql, ttl, attempt, tmp, h, yielded, scope>>

\* keyword arguments the lazy reconnect passes: self.connect(**self._kwargs)
ReconnectKwargsDropped(kw) == 0
ReconnectKwargs(kw) == kw

\* Entering the part of _query / session() that reads self._instance.  Snowpark
\* enters `with self._lock:` first.  BaseConnection._instance then tests
\* `self._raw_instance is None`.
EnterWithoutLock(t) ==
    /\ pc[t] = "enter"
    /\ UNCHANGED <<lockOwner, lockCount>>
    /\ pc' = [pc EXCEPT ![t] = IF raw = NoHandle THEN "connect" ELSE "ret"]
    /\ UNCHANGED <<kind, resetRun, faults, built, kwargs, raw, connArgs, cache, now, live>>
    /\ UNCHANGED <<op, sql, ttl, attempt, tmp, h, yielded, out, scope, calls, cnt>>

Enter(t) ==
    /\ pc[t] = "enter"
    /\ IF UsesLock
       THEN CanAcquire(t) /\ Acquired(t)
       ELSE UNCHANGED <<lockOwner, lockCount>>
    /\ pc' = [pc EXCEPT ![t] = IF raw = NoHandle THEN "connect" ELSE "ret"]
    /\ UNCHANGED <<kind, resetRun, faults, built, kwargs, raw, connArgs, cache, now, live>>
    /\ UNCHANGED <<op, sql, ttl, attempt, tmp, h, yielded, out, scope, calls, cnt>>

\* BaseConnection._instance: self.connect(**self._kwargs) returns a new handle ...
ConnectOk(t) ==
    /\ pc[t] = "connect"
    /\ pc' = [pc EXCEPT ![t] = "store"]
    /\ connArgs' = ReconnectKwargs(kwargs)
    /\ tmp' = [tmp EXCEPT ![t] = NewHandle]
    /\ live' = live \cup {NewHandle}
    /\ cnt' = [cnt EXCEPT ![t].conn = @ + 1]
    /\ UNCHANGED <<kind, resetRun, faults, built, kwargs, raw, lockOwner, lockCount, cache, now>>
    /\ UNCHANGED <<op, sql, ttl, attempt, h, yielded, out, scope, calls>>

\* ... or raises.  The exception leaves `with self._lock:`; in query() it reaches
\* the retry wrapper, in session() it reaches the caller.
ConnectFailKeepingLock(t) ==
    /\ pc[t] = "connect" /\ faults < MaxFaults
    /\ faults' = faults + 1
    /\ connArgs' = ReconnectKwargs(kwargs)
    /\ UNCHANGED <<lockOwner, lockCount>>
    /\ cnt' = [cnt EXCEPT ![t].connfail = @ + 1]
    /\ IF op[t] = "query"
       THEN /\ pc' = [pc EXCEPT ![t] = "after"]
            /\ out' = [out EXCEPT ![t] = Raised("connect", attempt[t])]
       ELSE /\ pc' = [pc EXCEPT ![t] = "idle"]
            /\ out' = [out EXCEPT ![t] = ErrOut("connect", 0)]
    /\ UNCHANGED <<kind, resetRun, built, kwargs, raw, cache, now, live>>
    /\ UNCHANGED <<op, sql, ttl, attempt, tmp, h, yielded, scope, calls>>

ConnectFailStoringPartial(t) ==
    /\ pc[t] = "connect" /\ faults < MaxFaults
    /\ faults' = faults + 1
    /\ connArgs' = ReconnectKwargs(kwargs)
    /\ LeaveLock(t)
    /\ cnt' = [cnt EXCEPT ![t].connfail = @ + 1]
    /\ raw' = NewHandle
    /\ IF op[t] = "query"
       THEN /\ pc' = [pc EXCEPT ![t] = "after"]
            /\ out' = [out EXCEPT ![t] = Raised("connect", attempt[t])]
       ELSE /\ pc' = [pc EXCEPT ![t] = "idle"]
            /\ out' = [out EXCEPT ![t] = ErrOut("connect", 0)]
    /\ UNCHANGED <<kind, resetRun, built, kwargs, cache, now, live>>
    /\ UNCHANGED <<op, sql, ttl, attempt, tmp, h, yielded, scope, calls>>

ConnectFail(t) ==
    /\ pc[t] = "connect" /\ faults < MaxFaults
    /\ faults' = faults + 1
    /\ connArgs' = ReconnectKwargs(kwargs)
    /\ LeaveLock(t)
    /\ cnt' = [cnt EXCEPT ![t].connfail = @ + 1]
    /\ IF op[t] = "query"
       THEN /\ pc' = [pc EXCEPT ![t] = "after"]
            /\ out' = [out EXCEPT ![t] = Raised("connect", attempt[t])]
       ELSE /\ pc' = [pc EXCEPT ![t] = "idle"]
            /\ out' = [out EXCEPT ![t] = ErrOut("connect", 0)]
    /\ UNCHANGED <<kind, resetRun, built, kwargs, raw, cache, now, live>>
    /\ UNCHANGED <<op, sql, ttl, attempt, tmp, h, yielded, scope, calls>>

\* BaseConnection._instance: self._raw_instance = <the new handle>
Store(t) ==
    /\ pc[t] = "store"
    /\ pc' = [pc EXCEPT ![t] = "ret"]
    /\ raw' = tmp[t]
    /\ resetRun' = 0
    /\ tmp' = [tmp EXCEPT ![t] = NoHandle]
    /\ UNCHANGED <<kind, faults, built, kwargs, connArgs, lockOwner, lockCount,
                   cache, now, live>>
    /\ UNCHANGED <<op, sql, ttl, attempt, h, yielded, out, scope, calls, cnt>>

\* BaseConnection._instance: return self._raw_instance (a second read of the
\* field).  In query() the execution starts on it; in session() it is yielded
\* and the thread is inside the scope.
Ret(t) ==
    /\ pc[t] = "ret"
    /\ IF op[t] = "query"
       THEN /\ pc' = [pc EXCEPT ![t] = "exec"]
            /\ h' = [h EXCEPT ![t] = raw]
            /\ UNCHANGED <<scope, out, yielded>>
       ELSE /\ pc' = [pc EXCEPT ![t] = "idle"]
            /\ yielded' = [yielded EXCEPT ![t] = raw]
            /\ scope' = [scope EXCEPT ![t] = @ + 1]
            /\ out' = [out EXCEPT ![t] = OkOut(<<0, 0>>, 0)]
            /\ UNCHANGED h
    /\ UNCHANGED shared
    /\ UNCHANGED <<op, sql, ttl, attempt, tmp, calls, cnt>>

\* The body of _query on the handle: Snowpark self._instance.sql(sql).to_pandas(),
\* SQL self._instance.connect() and pd.read_sql(...).  It returns a result, which
\* the cached wrapper stores under the key of the arguments ...
ExecOk(t) ==
    /\ pc[t] = "exec" /\ h[t] # NoHandle
    /\ pc' = [pc EXCEPT ![t] = "idle"]
    /\ cache' = CachePut(QueryKey(sql[t]), NewResult(sql[t]), ttl[t])
    /\ out' = [out EXCEPT ![t] = OkOut(NewResult(sql[t]), attempt[t])]
    /\ cnt' = [cnt EXCEPT ![t].exec = @ + 1]
    /\ LeaveLock(t)
    /\ UNCHANGED <<kind, resetRun, faults, built, kwargs, raw, connArgs, now, live>>
    /\ h' = [h EXCEPT ![t] = NoHandle]
    /\ UNCHANGED <<op, sql, ttl, attempt, tmp, yielded, scope, calls>>

\* ... or it raises: nothing is stored, the exception leaves `with self._lock:`
\* and reaches the retry wrapper.  On None (the field was cleared between the
\* two reads of _instance) the attribute access raises before anything runs.
ExecFailCachingError(t) ==
    /\ pc[t] = "exec"
    /\ h[t] # NoHandle => faults < MaxFaults
    /\ pc' = [pc EXCEPT ![t] = "after"]
    /\ cache' = CachePut(QueryKey(sql[t]), <<sql[t], 0>>, ttl[t])
    /\ IF h[t] = NoHandle
       THEN /\ out' = [out EXCEPT ![t] = Raised("nohandle", attempt[t])]
            /\ UNCHANGED <<cnt, faults>>
       ELSE /\ out' = [out EXCEPT ![t] = Raised("exec", attempt[t])]
            /\ cnt' = [cnt EXCEPT ![t].exec = @ + 1]
            /\ faults' = faults + 1
    /\ LeaveLock(t)
    /\ UNCHANGED <<kind, resetRun, built, kwargs, raw, connArgs, now, live>>
    /\ h' = [h EXCEPT ![t] = NoHandle]
    /\ UNCHANGED <<op, sql, ttl, attempt, tmp, yielded, scope, calls>>

ExecFail(t) ==
    /\ pc[t] = "exec"
    /\ h[t] # NoHandle => faults < MaxFaults
    /\ pc' = [pc EXCEPT ![t] = "after"]
    /\ IF h[t] = NoHandle
       THEN /\ out' = [out EXCEPT ![t] = Raised("nohandle", attempt[t])]
            /\ UNCHANGED <<cnt, faults>>
       ELSE /\ out' = [out EXCEPT ![t] = Raised("exec", attempt[t])]
            /\ cnt' = [cnt EXCEPT ![t].exec = @ + 1]
            /\ faults' = faults + 1
    /\ LeaveLock(t)
    /\ UNCHANGED <<kind, resetRun, built, kwargs, raw, connArgs, cache, now, live>>
    /\ h' = [h EXCEPT ![t] = NoHandle]
    /\ UNCHANGED <<op, sql, ttl, attempt, tmp, yielded, scope, calls>>

\* stop=stop_after_attempt(3)
StopAfterFour(a) == a >= MaxAttempts + 1
ShouldStop(a) == a >= MaxAttempts

\* BaseConnection.reset: self._raw_instance = None
ResetField ==
    /\ raw' = NoHandle
    /\ live' = live \ {raw}
    /\ resetRun' = IF resetRun < 2 THEN resetRun + 1 ELSE 2

\* The retry wrapper after an attempt that raised: after=lambda _: self.reset()
\* runs first, for every failed attempt; then stop_after_attempt(3) with
\* reraise=True raises the attempt's exception, or the wrapper sleeps.
AfterResetOnlyBeforeRetry(t) ==
    /\ pc[t] = "after"
    /\ IF ShouldStop(attempt[t])
       THEN /\ pc' = [pc EXCEPT ![t] = "idle"]
            /\ out' = [out EXCEPT ![t].st = "err"]
            /\ UNCHANGED <<raw, live, cnt, resetRun>>
       ELSE /\ pc' = [pc EXCEPT ![t] = "wait"]
            /\ ResetField
            /\ cnt' = [cnt EXCEPT ![t].reset = @ + 1,
                                  ![t].supp = @ \cup {<<out[t].ek, out[t].att>>}]
            /\ UNCHANGED out
    /\ UNCHANGED <<kind, faults, built, kwargs, connArgs, lockOwner, lockCount,
                   cache, now>>
    /\ UNCHANGED <<op, sql, ttl, attempt, tmp, h, yielded, scope, calls>>

After(t) ==
    /\ pc[t] = "after"
    /\ ResetField
    /\ IF ShouldStop(attempt[t])
       THEN /\ pc' = [pc EXCEPT ![t] = "idle"]
            /\ out' = [out EXCEPT ![t].st = "err"]
            /\ cnt' = [cnt EXCEPT ![t].reset = @ + 1]
       ELSE /\ pc' = [pc EXCEPT ![t] = "wait"]
            /\ cnt' = [cnt EXCEPT ![t].reset = @ + 1,
                                  ![t].supp = @ \cup {<<out[t].ek, out[t].att>>}]
            /\ UNCHANGED out
    /\ UNCHANGED <<kind, faults, built, kwargs, connArgs, lockOwner, lockCount,
                   cache, now>>
    /\ UNCHANGED <<op, sql, ttl, attempt, tmp, h, yielded, scope, calls>>

\* wait=wait_fixed(1) is over: the next attempt runs the cached wrapper again.
WaitDone(t) ==
    /\ pc[t] = "wait"
    /\ attempt' = [attempt EXCEPT ![t] = @ + 1]
    /\ Lookup(t, sql[t], ttl[t], attempt[t] + 1)
    /\ UNCHANGED shared
    /\ UNCHANGED <<op, sql, ttl, tmp, h, yielded, scope, calls, cnt>>

\* Leaving the body of `with conn.session():`, by its end or by an exception of
\* the body: the generator resumes and leaves `with self._lock:`.
ExitSessionKeepingLock(t, raised) ==
    /\ Idle(t) /\ scope[t] > 0
    /\ scope' = [scope EXCEPT ![t] = @ - 1]
    /\ op' = [op EXCEPT ![t] = "exit"]
    /\ out' = [out EXCEPT ![t] = IF raised THEN ErrOut("body", 0) ELSE OkOut(<<0, 0>>, 0)]
    /\ IF raised THEN UNCHANGED <<lockOwner, lockCount>> ELSE LeaveLock(t)
    /\ UNCHANGED <<kind, resetRun, faults, built, kwargs, raw, connArgs, cache, now, live>>
    /\ yielded' = [yielded EXCEPT ![t] = NoHandle]
    /\ UNCHANGED <<pc, sql, ttl, attempt, tmp, h, calls, cnt>>

ExitSession(t, raised) ==
    /\ Idle(t) /\ scope[t] > 0
    /\ scope' = [scope EXCEPT ![t] = @ - 1]
    /\ op' = [op EXCEPT ![t] = "exit"]
    /\ out' = [out EXCEPT ![t] = IF raised THEN ErrOut("body", 0) ELSE OkOut(<<0, 0>>, 0)]
    /\ LeaveLock(t)
    /\ UNCHANGED <<kind, resetRun, faults, built, kwargs, raw, connArgs, cache, now, live>>
    /\ yielded' = [yielded EXCEPT ![t] = NoHandle]
    /\ UNCHANGED <<pc, sql, ttl, attempt, tmp, h, calls, cnt>>

\* A caller's own conn.reset().
Reset(t) ==
    /\ CanStart(t)
    /\ ResetField
    /\ op' = [op EXCEPT ![t] = "reset"]
    /\ calls' = calls + 1
    /\ out' = [out EXCEPT ![t] = OkOut(<<0, 0>>, 0)]
    /\ cnt' = [cnt EXCEPT ![t] = [ZeroCnt EXCEPT !.reset = 1]]
    /\ UNCHANGED <<kind, faults, built, kwargs, connArgs, lockOwner, lockCount,
                   cache, now>>
    /\ UNCHANGED <<pc, sql, ttl, attempt, tmp, h, yielded, scope>>

\* Time passes for the cache.
Tick ==
    /\ now < MaxTime
    /\ now' = now + 1
    /\ UNCHANGED <<kind, resetRun, faults, built, kwargs, raw, connArgs, lockOwner, lockCount,
                   cache, live>>
    /\ UNCHANGED local

\* What the attempt that just raised had executed against, kept until the
\* retry's hook has run: the handle _instance returned to the execution, none
\* when connect raised.
TrackFailed ==
    failed' = [t \in Threads |->
                  IF pc'[t] # "after" THEN NoHandle
                  ELSE IF pc[t] = "exec" THEN h[t]
                  ELSE IF pc[t] = "after" THEN failed[t]
                  ELSE NoHandle]

\* The operations a caller starts, with the arguments drawn from the given sets.
Calls(t, kws, texts, tls) ==
    \/ \E kw \in kws : CtorEnter(t, kw)
    \/ \E s \in texts, tl \in tls : StartQuery(t, s, tl)
    \/ EnterSession(t)
    \/ Reset(t)

\* The steps inside an operation, and the end of a session() scope.
Internal(t) ==
    \/ \E ok \in BOOLEAN : CtorConnect(t, ok)
    \/ Enter(t)
    \/ ConnectOk(t)
    \/ ConnectFail(t)
    \/ Store(t)
    \/ Ret(t)
    \/ ExecOk(t)
    \/ ExecFail(t)
    \/ After(t)
    \/ WaitDone(t)
    \/ \E raised \in BOOLEAN : ExitSession(t, raised)

\* Threads sharing the adapter: one SQL text, cached indefinitely.
Next ==
    /\ \E t \in Threads : Calls(t, {1}, {1}, {0}) \/ Internal(t)
    /\ TrackFailed
    /\ UNCHANGED <<otherVars, connectVars, storeVars>>

Spec == Init /\ [][Next]_vars

\* A single caller, with every argument and the cache clock.
NextSeq ==
    /\ Calls(1, KwargSets, SqlTexts, TTLs) \/ Internal(1) \/ Tick
    /\ TrackFailed
    /\ UNCHANGED <<otherVars, connectVars, storeVars>>

SpecSeq == Init /\ [][NextSeq]_vars

\* Threads sharing the adapter under a fair scheduler: a thread that can take
\* a step inside its operation (the underlying call returns, the lock is free
\* or its own, the wait is over, the body of its session() scope ends)
\* eventually takes one.  Callers start at most MaxLiveOps operations.
Step(t) == Internal(t) /\ TrackFailed /\ UNCHANGED <<otherVars, connectVars, storeVars>>

NextLive ==
    /\ \E t \in Threads : (calls < MaxLiveOps /\ Calls(t, {1}, {1}, {0})) \/ Internal(t)
    /\ TrackFailed
    /\ UNCHANGED <<otherVars, connectVars, storeVars>>

SpecLive == Init /\ [][NextLive]_vars /\ \A t \in Threads : WF_vars(Step(t))

\* ------------------------------------------- two instances of one adapter
\* A query on a second instance of the same adapter class (another connection
\* name, another data source), constructed and connected, whose execution
\* returns.  Its _query is the same function definition, so the cached wrapper
\* looks in the same cache, under the key of the arguments of _query.
OtherQuery(s, tl) ==
    /\ built /\ calls < MaxOps
    /\ calls' = calls + 1
    /\ LET e == CacheGet(QueryKey(s)) IN
       IF e # NoEntry
       THEN /\ otherOut' = [st |-> "ok", sql |-> s, res |-> e.res, hit |-> TRUE,
                            from |-> owner[QueryKey(s)]]
            /\ UNCHANGED <<cache, owner>>
       ELSE /\ otherOut' = [st |-> "ok", sql |-> s, res |-> NewResult(s), hit |-> FALSE,
                            from |-> 2]
            /\ cache' = CachePut(QueryKey(s), NewResult(s), tl)
            /\ owner' = [owner EXCEPT ![QueryKey(s)] = 2]
    /\ UNCHANGED <<kind, built, kwargs, raw, connArgs, lockOwner, lockCount, now, live,
                   faults, resetRun>>
    /\ UNCHANGED <<pc, op, sql, ttl, attempt, tmp, h, yielded, out, scope, cnt, failed>>
    /\ UNCHANGED <<connectVars, storeVars>>

\* A step of the first instance (a single caller), which owns what it caches.
FirstInstance ==
    /\ Calls(1, {1}, SqlTexts, TTLs) \/ Internal(1) \/ Tick
    /\ TrackFailed
    /\ owner' = [k \in SqlTexts |-> IF cache'[k] # cache[k] THEN 1 ELSE owner[k]]
    /\ UNCHANGED <<otherOut, connectVars, storeVars>>

NextTwo ==
    \/ FirstInstance
    \/ \E s \in SqlTexts, tl \in TTLs : OtherQuery(s, tl)

SpecTwo == Init /\ [][NextTwo]_vars

\* ------------------------------------------------- _connect, on its own
\* The state before the constructor runs, with any secrets, any legacy config
\* file and any iteration order of the required parameters.
InitConnect ==
    /\ kind \in Kinds
    /\ AdapterIdle
    /\ StoreIdle
    /\ connRes = NoConnRes
    /\ IF kind = "SQL"
       THEN /\ secrets \in SUBSET SqlSecretKeys
            /\ iterOrder \in Orders(SqlRequired)
            /\ cfgFile = NoFile
       ELSE /\ secrets \in SUBSET SnowparkSecretKeys
            /\ iterOrder \in Orders(SnowparkRequired)
            /\ cfgFile \in Files

\* SQL._connect: with a `url` secret the URL is made from it; otherwise every
\* required parameter must be in the secrets, and the first one found missing
\* is named in the StreamlitAPIException.
SqlConnect ==
    /\ kind = "SQL" /\ connRes.st = "none"
    /\ connRes' =
         IF "url" \in secrets
         THEN [st |-> "handle", field |-> "", fileRead |-> FALSE, params |-> secrets]
         ELSE IF Missing(iterOrder, secrets) # {}
              THEN [st |-> "missing", field |-> FirstMissing(iterOrder, secrets),
                    fileRead |-> FALSE, params |-> secrets]
              ELSE [st |-> "handle", field |-> "", fileRead |-> FALSE, params |-> secrets]
    /\ UNCHANGED <<secrets, iterOrder, cfgFile>>
    /\ UNCHANGED <<shared, local, failed, otherVars, storeVars>>

\* Snowpark._connect: the parameters are the secrets, or what the legacy config
\* file gives when the secrets are empty ({} when there is no file; reading a
\* file without a [connections] section raises KeyError); then the check of the
\* required parameters as above.
SnowparkConnect ==
    /\ kind = "Snowpark" /\ connRes.st = "none"
    /\ LET useFile == secrets = {}
           params == IF ~useFile THEN secrets
                     ELSE IF ~cfgFile.exists THEN {}
                     ELSE LoadedKeys(cfgFile)
       IN connRes' =
            IF useFile /\ cfgFile.exists /\ ~cfgFile.section
            THEN [st |-> "keyerror", field |-> "connections", fileRead |-> TRUE, params |-> {}]
            ELSE IF Missing(iterOrder, params) # {}
                 THEN [st |-> "missing", field |-> FirstMissing(iterOrder, params),
                       fileRead |-> useFile, params |-> params]
                 ELSE [st |-> "handle", field |-> "", fileRead |-> useFile, params |-> params]
    /\ UNCHANGED <<secrets, iterOrder, cfgFile>>
    /\ UNCHANGED <<shared, local, failed, otherVars, storeVars>>

NextConnect == SqlConnect \/ SnowparkConnect

SpecConnect == InitConnect /\ [][NextConnect]_vars

\* ------------------------------------------------ RedisSessionStorage calls
\* RedisSessionStorage.__init__: an empty database here, no collaborators.
InitStore ==
    /\ kind = "SQL"
    /\ AdapterIdle
    /\ ConnectIdle
    /\ StoreIdle

CanCall == storeOps < MaxStoreOps

\* set_uploaded_file_manager
SetUploadedFileManager(v) ==
    /\ ufm' = v
    /\ got' = NoGot
    /\ UNCHANGED <<redisDb, mec, clock, lastSave, storeOps>>
    /\ UNCHANGED <<shared, local, failed, otherVars, connectVars>>

\* set_message_enqueued_callback
SetMessageEnqueuedCallback(v) ==
    /\ mec' = v
    /\ got' = NoGot
    /\ UNCHANGED <<redisDb, ufm, clock, lastSave, storeOps>>
    /\ UNCHANGED <<shared, local, failed, otherVars, connectVars>>

\* save: SET key blob EX 3600
SaveWithoutExpiry(si) ==
    /\ CanCall
    /\ redisDb' = [redisDb EXCEPT ![SessionRedisKey(si.id)] =
                       [blob |-> SerializeSession(si), exp |-> clock + 2 * ExpirySeconds]]
    /\ lastSave' = [lastSave EXCEPT ![si.id] = [info |-> si, at |-> clock, n |-> @.n + 1]]
    /\ got' = [op |-> "save", id |-> si.id, st |-> "ok", info |-> <<>>]
    /\ storeOps' = storeOps + 1
    /\ UNCHANGED <<ufm, mec, clock>>
    /\ UNCHANGED <<shared, local, failed, otherVars, connectVars>>

Save(si) ==
    /\ CanCall
    /\ redisDb' = [redisDb EXCEPT ![SessionRedisKey(si.id)] =
                       [blob |-> SerializeSession(si), exp |-> clock + ExpirySeconds]]
    /\ lastSave' = [lastSave EXCEPT ![si.id] = [info |-> si, at |-> clock, n |-> @.n + 1]]
    /\ got' = [op |-> "save", id |-> si.id, st |-> "ok", info |-> <<>>]
    /\ storeOps' = storeOps + 1
    /\ UNCHANGED <<ufm, mec, clock>>
    /\ UNCHANGED <<shared, local, failed, otherVars, connectVars>>

\* get: GET key; None when there is none; otherwise _deserialize_session, whose
\* assertions on the two collaborators come before the AppSession is made.
GetAssertingOneCollaborator(id) ==
    /\ CanCall
    /\ LET e == redisDb[SessionRedisKey(id)] IN
       got' = IF e = NoBlob
              THEN [op |-> "get", id |-> id, st |-> "absent", info |-> <<>>]
              ELSE IF ufm = NoneRef
              THEN [op |-> "get", id |-> id, st |-> "assert", info |-> <<>>]
              ELSE [op |-> "get", id |-> id, st |-> "ok", info |-> DeserializeSession(e.blob)]
    /\ storeOps' = storeOps + 1
    /\ UNCHANGED <<redisDb, ufm, mec, clock, lastSave>>
    /\ UNCHANGED <<shared, local, failed, otherVars, connectVars>>

Get(id) ==
    /\ CanCall
    /\ LET e == redisDb[SessionRedisKey(id)] IN
       got' = IF e = NoBlob
              THEN [op |-> "get", id |-> id, st |-> "absent", info |-> <<>>]
              ELSE IF ufm = NoneRef \/ mec = NoneRef
              THEN [op |-> "get", id |-> id, st |-> "assert", info |-> <<>>]
              ELSE [op |-> "get", id |-> id, st |-> "ok", info |-> DeserializeSession(e.blob)]
    /\ storeOps' = storeOps + 1
    /\ UNCHANGED <<redisDb, ufm, mec, clock, lastSave>>
    /\ UNCHANGED <<shared, local, failed, otherVars, connectVars>>

\* delete: DEL key
DeleteRaisingOnAbsent(id) ==
    /\ CanCall
    /\ redisDb' = [redisDb EXCEPT ![SessionRedisKey(id)] = NoBlob]
    /\ lastSave' = [lastSave EXCEPT ![id] = NoSave]
    /\ got' = [op |-> "delete", id |-> id,
               st |-> IF redisDb[SessionRedisKey(id)] = NoBlob THEN "keyerror" ELSE "ok",
               info |-> <<>>]
    /\ storeOps' = storeOps + 1
    /\ UNCHANGED <<ufm, mec, clock>>
    /\ UNCHANGED <<shared, local, failed, otherVars, connectVars>>

Delete(id) ==
    /\ CanCall
    /\ redisDb' = [redisDb EXCEPT ![SessionRedisKey(id)] = NoBlob]
    /\ lastSave' = [lastSave EXCEPT ![id] = NoSave]
    /\ got' = [op |-> "delete", id |-> id, st |-> "ok", info |-> <<>>]
    /\ storeOps' = storeOps + 1
    /\ UNCHANGED <<ufm, mec, clock>>
    /\ UNCHANGED <<shared, local, failed, otherVars, connectVars>>

\* Time passes on the redis server: the keys whose expiry is reached are gone.
StoreTick ==
    /\ clock < MaxClock
    /\ clock' = clock + TickSeconds
    /\ redisDb' = [k \in RedisKeys |->
                       IF redisDb[k] # NoBlob /\ redisDb[k].exp <= clock + TickSeconds
                       THEN NoBlob ELSE redisDb[k]]
    /\ got' = NoGot
    /\ UNCHANGED <<ufm, mec, lastSave, storeOps>>
    /\ UNCHANGED <<shared, local, failed, otherVars, connectVars>>

NextStore ==
    \/ \E v \in Collaborators : SetUploadedFileManager(v)
    \/ \E v \in Collaborators : SetMessageEnqueuedCallback(v)
    \/ \E si \in SessionInfos : Save(si)
    \/ \E id \in SessionIds : Get(id)
    \/ \E id \in SessionIds : Delete(id)
    \/ StoreTick

SpecStore == InitStore /\ [][NextStore]_vars

\* ------------------------------------------------------------ properties
QueryDone(t) == op[t] = "query" /\ pc[t] = "idle"
Returned(t) == QueryDone(t) /\ out[t].st = "ok"
Surfaced(t) == QueryDone(t) /\ out[t].st = "err"

\* every attempt of the call raised inside the execution on the handle
AllAttemptsRaisedInExecution(t) ==
    /\ Surfaced(t)
    /\ out[t].ek = "exec"
    /\ cnt[t].supp = {<<"exec", 1>>, <<"exec", 2>>}

\* C1: a query call that starts while an unexpired result of the same SQL text
\* is cached returns that cached result without executing and without touching
\* the handle; every returned result is a result of the call's own SQL text, so
\* a call with another text (or after expiry) executes: at least once, and
\* exactly once when its first attempt succeeds.
C1_CachedOnce ==
    \A t \in Threads :
        Returned(t) =>
            /\ out[t].res[1] = sql[t]
            /\ cnt[t].hit =>
                /\ cnt[t].exec = 0 /\ cnt[t].conn = 0 /\ cnt[t].reset = 0
                /\ out[t].att = 1
                /\ out[t].res = cache[sql[t]].res
            /\ ~cnt[t].hit =>
                /\ cnt[t].exec >= 1
                /\ out[t].att = 1 => cnt[t].exec = 1

\* the second of two identical calls was answered from the cache, within a TTL
C1_Witness ==
    /\ Returned(1) /\ cnt[1].hit /\ ttl[1] = 1 /\ calls = 2
    /\ cache[sql[1]].exp # NoExpiry

\* C2: a query call makes at most 3 attempts; it raises only from the third
\* attempt and raises that attempt's exception; when every attempt raised in
\* the execution there were exactly 3 executions; when attempt k returns, the
\* call returns that result and no further attempt runs.
C2_ThreeAttempts ==
    \A t \in Threads :
        /\ attempt[t] <= MaxAttempts
        /\ cnt[t].exec <= MaxAttempts
        /\ Surfaced(t) =>
            /\ out[t].att = MaxAttempts /\ attempt[t] = MaxAttempts
            /\ out[t].ek \in {"exec", "connect", "nohandle"}
        /\ AllAttemptsRaisedInExecution(t) => cnt[t].exec = MaxAttempts
        /\ Returned(t) =>
            /\ attempt[t] = out[t].att
            /\ cnt[t].exec <= out[t].att
            /\ \A e \in cnt[t].supp : e[2] < out[t].att

C2_Witness == AllAttemptsRaisedInExecution(1) /\ cnt[1].exec = 3

\* C3: in the first operation after construction, a query call whose execution
\* raises on all three attempts, reset() ran 3 times and connect ran twice in
\* the call (3 times with the one of the constructor), for attempts 2 and 3;
\* the third reset is followed by no reconnect: the handle stays cleared.
C3_ResetsAndConnects ==
    \A t \in Threads :
        AllAttemptsRaisedInExecution(t) =>
            /\ cnt[t].reset = 3
            /\ raw = NoHandle /\ live = {}
            /\ calls = 1 => 1 + cnt[t].conn = 3

C3_Witness == AllAttemptsRaisedInExecution(1) /\ calls = 1 /\ cnt[1].reset = 3

\* C4: with a single caller, connect is only called while the handle is
\* cleared and with the construction kwargs; since the latest reset at most one
\* handle was produced, however many resets preceded it; an access returns the
\* stored handle, which is that one.
C4_ResetThenOneConnect ==
    /\ built => connArgs = kwargs
    /\ Cardinality(live) <= 1
    /\ raw # NoHandle => live = {raw} /\ resetRun = 0
    /\ \A t \in Threads :
        /\ pc[t] = "connect" => raw = NoHandle /\ live = {}
        /\ pc[t] = "exec" => h[t] = raw /\ raw # NoHandle
        /\ (op[t] = "session" /\ pc[t] = "idle" /\ out[t].st = "ok") =>
               yielded[t] = raw /\ raw # NoHandle

\* two resets in a row, then the access of a query connected once
C4_Witness ==
    /\ op[1] = "query" /\ pc[1] = "store" /\ resetRun = 2 /\ cnt[1].conn = 1
    /\ calls = 3 /\ faults = 0 /\ cache = [k \in SqlTexts |-> NoEntry] /\ scope[1] = 0
    /\ connArgs = kwargs /\ kwargs = 2

\* C5: at most one live handle per adapter instance, for both adapters and
\* under every interleaving of the threads: connect never produces a handle
\* while another one is live.
C5_AtMostOneLiveHandle == Cardinality(live) <= 1

\* The same for the Snowpark adapter alone, whose connect calls all run under
\* the lock.
C5_SnowparkOneLiveHandle == UsesLock => Cardinality(live) <= 1

\* Threads inside the locked part of _query or of the entry of session(), and
\* inside the constructor.
InLocked(t) == pc[t] \in {"ctor", "connect", "store", "ret", "exec"}
Executing(t) == pc[t] = "exec"
Holds(t) == IF lockOwner = t THEN lockCount ELSE 0

\* C6: Snowpark adapter: two threads never execute a query against the handle
\* at the same time, and no thread executes while another thread is inside a
\* session() scope.
C6_MutualExclusion ==
    UsesLock =>
        \A t \in Threads : \A u \in Threads \ {t} :
            Executing(t) => ~Executing(u) /\ scope[u] = 0 /\ ~InLocked(u)

\* one thread executes while the other waits for the lock
C6_Witness ==
    /\ UsesLock /\ Executing(1) /\ pc[2] = "enter" /\ op[2] = "query"
    /\ lockOwner = 1

\* C7: Snowpark adapter: a thread that is about to call connect (in the
\* constructor or in the lazy reconnect of query and session) or to read or
\* write the stored handle inside _instance holds the lock.
C7_HandleAccessUnderLock ==
    UsesLock =>
        \A t \in Threads :
            pc[t] \in {"ctor", "connect", "store", "ret"} =>
                lockOwner = t /\ lockCount >= 1

\* a lazy reconnect of session() under the lock while the other thread waits
C7_Witness ==
    /\ UsesLock /\ pc[1] = "connect" /\ op[1] = "session" /\ lockOwner = 1
    /\ pc[2] = "enter"

\* C8: Snowpark adapter: a thread holds the lock once for every session() scope
\* it is inside plus once while it is in a locked part; the lock is free exactly
\* when nobody holds it.  So after a scope is left, by the end of the body, by
\* an exception of the body or by a connect that raised at its entry, the
\* thread holds nothing of it.
C8_LockBalanced ==
    UsesLock =>
        /\ lockCount >= 0
        /\ lockOwner = NoThread <=> lockCount = 0
        /\ \A t \in Threads :
               Holds(t) = scope[t] + (IF InLocked(t) THEN 1 ELSE 0)

\* a connect raised at the entry of a scope and the other thread got the lock
C8_Witness ==
    /\ UsesLock /\ op[1] = "session" /\ pc[1] = "idle"
    /\ out[1].st = "err" /\ out[1].ek = "connect"
    /\ lockOwner = 2 /\ scope[2] = 1

\* C9: the cache changes only in the step in which an execution returns, and
\* then the entry of the call's SQL text becomes the returned result; a step in
\* which an attempt raises leaves the cache as it is.  With a single caller, a
\* call that returned, also at a later attempt after failed ones, finds its
\* result cached under its SQL text.
C9_OnlySuccessCached ==
    /\ [][\A k \in SqlTexts :
            cache'[k] # cache[k] =>
                \E t \in Threads :
                    /\ pc[t] = "exec" /\ pc'[t] = "idle" /\ out'[t].st = "ok"
                    /\ sql[t] = k
                    /\ cache'[k].res = out'[t].res]_vars
    /\ [](\A t \in Threads : Returned(t) => cache[sql[t]].res = out[t].res)

\* the third attempt succeeded after two that raised, and its result is cached
C9_Witness ==
    /\ Returned(1) /\ out[1].att = 3 /\ cnt[1].exec = 3
    /\ cnt[1].supp = {<<"exec", 1>>, <<"exec", 2>>}
    /\ cache[sql[1]].res = out[1].res /\ Fresh(cache[sql[1]])

\* C10: the retry suppresses nothing but execution failures of the first and
\* second attempts: no exception raised by connect is ever suppressed.
C10_OnlyExecutionFailuresSuppressed ==
    \A t \in Threads :
        \A e \in cnt[t].supp : e[1] \in {"exec", "nohandle"} /\ e[2] \in {1, 2}

\* the constructor call of thread t has ended and nothing was started since
CtorDone(t) == op[t] = "ctor" /\ pc[t] = "idle" /\ calls = 0

\* C11: when the constructor returns, connect was called exactly once, with the
\* construction kwargs, and its result is the stored handle; when that connect
\* raised, the constructor raised its exception, no adapter exists and nothing
\* is stored; in both cases the Snowpark lock taken for the construction is
\* free again.  While the constructor runs no handle is stored yet.
C11_ConstructionConnectsOnce ==
    \A t \in Threads :
        /\ pc[t] = "ctor" => ~built /\ raw = NoHandle /\ kwargs \in KwargSets
        /\ (CtorDone(t) /\ out[t].st = "ok") =>
            /\ built /\ raw # NoHandle /\ live = {raw}
            /\ connArgs = kwargs /\ kwargs \in KwargSets
            /\ cnt[t].conn = 1 /\ cnt[t].connfail = 0
            /\ lockOwner = NoThread /\ lockCount = 0
        /\ (CtorDone(t) /\ out[t].st = "err") =>
            /\ ~built /\ raw = NoHandle /\ live = {}
            /\ out[t].ek = "connect" /\ connArgs \in KwargSets
            /\ cnt[t].conn = 0 /\ cnt[t].connfail = 1
            /\ lockOwner = NoThread /\ lockCount = 0

\* connect raised in the constructor of a Snowpark adapter
C11_Witness ==
    /\ UsesLock /\ CtorDone(1) /\ out[1].st = "err" /\ ~built
    /\ connArgs = 2 /\ lockOwner = NoThread

\* the order in which the claim takes the required parameters
SqlClaimedOrder == <<"dialect", "username", "host">>

\* C12: SQL._connect: without a `url` secret and with a required parameter
\* missing, connect raises the configuration error that names the first missing
\* one in the order dialect, username, host (so the message is a function of the
\* secrets); with a `url` secret no required parameter is checked.
C12_FirstMissingInOrder ==
    (kind = "SQL" /\ connRes.st # "none") =>
        /\ "url" \in secrets => connRes.st = "handle"
        /\ ("url" \notin secrets /\ ~(SqlRequired \subseteq secrets)) =>
              /\ connRes.st = "missing"
              /\ connRes.field = FirstMissing(SqlClaimedOrder, secrets)
        /\ ("url" \notin secrets /\ SqlRequired \subseteq secrets) => connRes.st = "handle"

\* What holds in every iteration order: the error names a required parameter
\* that is missing, hence `host` when only host is missing.
C12_NamesAMissingField ==
    (kind = "SQL" /\ connRes.st # "none") =>
        /\ "url" \in secrets => connRes.st = "handle"
        /\ ("url" \notin secrets /\ ~(SqlRequired \subseteq secrets)) =>
              /\ connRes.st = "missing"
              /\ connRes.field \in SqlRequired \ secrets

\* C13: Snowpark._connect: the parameters are the secrets; the legacy config
\* file is consulted exactly when the secrets are empty; a config file that
\* does not exist gives the empty mapping and no failure of its own; with
\* empty secrets and no config file, connect raises the configuration error
\* that names `account`.
C13_SecretsThenFileThenAccount ==
    (kind = "Snowpark" /\ connRes.st # "none") =>
        /\ connRes.fileRead <=> secrets = {}
        /\ secrets # {} => connRes.params = secrets
        /\ (secrets = {} /\ ~cfgFile.exists) =>
              /\ connRes.params = {}
              /\ connRes.st = "missing"
              /\ connRes.field = "account"

\* What holds in every iteration order: the file is consulted exactly when the
\* secrets are empty, and with no parameters from either source the error names
\* a required parameter.
C13_SecretsThenFile ==
    (kind = "Snowpark" /\ connRes.st # "none") =>
        /\ connRes.fileRead <=> secrets = {}
        /\ secrets # {} => connRes.params = secrets
        /\ (secrets = {} /\ ~cfgFile.exists) =>
              /\ connRes.params = {}
              /\ connRes.st = "missing"
              /\ connRes.field \in SnowparkRequired

\* a save of the session id was made, no delete followed it, and less than one
\* hour has passed since
Stored(id) == lastSave[id] # NoSave /\ clock < lastSave[id].at + ExpirySeconds
Injected == ufm # NoneRef /\ mec # NoneRef

C15_AbsentHandling ==
    /\ [](got.op = "get" /\ ~Stored(got.id) => got.st = "absent" /\ got.info = <<>>)
    /\ [](got.op = "delete" =>
              /\ got.st = "ok"
              /\ redisDb[SessionRedisKey(got.id)] = NoBlob
              /\ ~Stored(got.id))
    /\ [][got'.op = "delete" =>
              \A j \in SessionIds \ {got'.id} :
                  redisDb'[SessionRedisKey(j)] = redisDb[SessionRedisKey(j)]]_vars

\* without collaborators, a get of an id that was never saved returned None
\* while the other session is stored
C15_Witness ==
    /\ got.op = "get" /\ got.st = "absent" /\ got.id = 1 /\ ~Injected
    /\ lastSave[1] = NoSave /\ Stored(2) /\ redisDb[SessionRedisKey(2)] # NoBlob

\* C16: a get of a stored session id while the upload-file manager or the
\* message-enqueue callback is None fails with the AssertionError, returns no
\* SessionInfo, and the step leaves the database unchanged; the assertion
\* fails in no other case, so with both injected the get of a stored id
\* returns the session.
C16_AssertsCollaborators ==
    /\ [](got.op = "get" =>
              /\ got.st = "assert" <=>
                    (redisDb[SessionRedisKey(got.id)] # NoBlob /\ ~Injected)
              /\ got.st = "assert" => got.info = <<>>
              /\ (redisDb[SessionRedisKey(got.id)] # NoBlob /\ Injected) => got.st = "ok")
    /\ [][got'.st = "assert" => redisDb' = redisDb]_vars

\* only the callback was missing
C16_Witness ==
    /\ got.op = "get" /\ got.st = "assert" /\ ufm # NoneRef /\ mec = NoneRef
    /\ Stored(got.id)

\* C17: an entry is in the database exactly from a save of its id until one
\* hour after the latest save (or a delete), and its expiry is the time of the
\* latest save plus 3600 seconds; a get changes nothing in the database and so
\* does not extend it; a get at or after the expiry returns None.
C17_OneHourExpiry ==
    /\ [](\A id \in SessionIds :
              /\ redisDb[SessionRedisKey(id)] # NoBlob <=> Stored(id)
              /\ Stored(id) =>
                    redisDb[SessionRedisKey(id)].exp = lastSave[id].at + ExpirySeconds)
    /\ [](got.op = "get" /\ lastSave[got.id] # NoSave
              /\ clock >= lastSave[got.id].at + ExpirySeconds => got.st = "absent")
    /\ [][got'.op = "get" => redisDb' = redisDb]_vars

\* saved at 0 and again at 1800: stored at 3600, and gone at 5400
C17_Witness ==
    /\ got.op = "get" /\ got.st = "absent" /\ got.id = 1
    /\ lastSave[1].n = 2 /\ lastSave[1].at = TickSeconds
    /\ clock = lastSave[1].at + ExpirySeconds

\* C18: a query call makes at most 3 attempts and waits at most twice, and
\* under a fair scheduler every query call that has started ends, with a result
\* or with an exception: no thread stays blocked on the lock, in a connect, in
\* an execution or in a wait.
C18_QueryTerminates ==
    /\ [](\A t \in Threads :
              /\ attempt[t] <= MaxAttempts
              /\ pc[t] = "wait" => attempt[t] <= MaxAttempts - 1)
    /\ \A t \in Threads :
           (op[t] = "query" /\ pc[t] # "idle") ~>
               (pc[t] = "idle" /\ out[t].st \in {"ok", "err"})

\* a query about to make its third attempt waits for the lock that the other
\* thread holds inside a session() scope
C18_Witness ==
    /\ UsesLock /\ op[1] = "query" /\ pc[1] = "enter" /\ attempt[1] = MaxAttempts
    /\ lockOwner = 2 /\ scope[2] = 1 /\ Idle(2)

\* C19: Snowpark adapter: a thread inside a session() scope that calls query()
\* or enters session() again can take the lock at once (the nested call is not
\* blocked), and while a thread is inside any scope it owns the lock, at least
\* once per scope, and no other thread is in a locked part or in a scope: the
\* lock is free for others only after the outermost scope is left.
C19_ReentrantLock ==
    UsesLock =>
        \A t \in Threads :
            scope[t] > 0 =>
                /\ lockOwner = t /\ lockCount >= scope[t]
                /\ pc[t] = "enter" =>
                       ENABLED (Enter(t) /\ TrackFailed /\ UNCHANGED <<otherVars, connectVars, storeVars>>)
                /\ \A u \in Threads \ {t} : ~InLocked(u) /\ scope[u] = 0

\* a query executes inside two nested session() scopes of its thread
C19_Witness ==
    /\ UsesLock /\ scope[1] = 2 /\ Executing(1) /\ lockOwner = 1 /\ lockCount = 3

\* C20: Snowpark adapter: while a thread is inside a session() scope and the
\* stored handle is the one yielded to it, no step of another thread's query
\* changes the stored handle; in particular the reset that the retry runs after
\* another thread's failed attempt leaves it as it is.
C20_HandleStableInScope ==
    [][\A t \in Threads : \A u \in Threads \ {t} :
           (/\ UsesLock
            /\ scope[t] > 0 /\ Idle(t) /\ yielded[t] = raw /\ raw # NoHandle
            /\ op[u] = "query" /\ pc[u] # "idle" /\ pc'[u] # pc[u])
           => raw' = raw]_vars

\* C21: the reset that the retry runs after a failed attempt clears the stored
\* handle only when it is the handle that attempt executed against: a handle
\* that another thread stored after the failure, on which this attempt did not
\* fail, is not cleared by it.
C21_ResetClearsOnlyFailedHandle ==
    [][\A t \in Threads :
           (/\ pc[t] = "after" /\ pc'[t] # "after" /\ failed[t] # NoHandle
            /\ raw # NoHandle /\ raw' = NoHandle)
           => raw = failed[t]]_vars

\* C22: a query answered from the cache gets a result that an execution of its
\* own adapter instance produced: a result cached by one instance is never
\* returned to a query on another instance.
C22_CacheIsolatedPerInstance ==
    /\ [](otherOut.st = "ok" => otherOut.from = 2)
    /\ [][(op'[1] = "query" /\ calls' = calls + 1 /\ cnt'[1].hit /\ out'[1].st = "ok")
              => owner[QueryKey(sql'[1])] = 1]_vars

ConnectRaises(t) == pc[t] = "connect" /\ pc'[t] \notin {"connect", "store"}

\* C24: with a single caller: when the connect call of an instance access
\* raises, the exception leaves the access (to the caller of session(), to the
\* retry wrapper of query()), nothing is stored: the handle stays None and no
\* handle is live, for as long as that exception is the latest outcome; the
\* next access finds None and calls connect again, with the construction
\* kwargs.
C24_FailedReconnectStaysInvalid ==
    /\ [](\A t \in Threads :
              (op[t] \in {"query", "session"} /\ out[t].ek = "connect") =>
                  raw = NoHandle /\ tmp[t] = NoHandle /\ live = {})
    /\ [][\A t \in Threads :
              ConnectRaises(t) =>
                  /\ raw = NoHandle /\ raw' = NoHandle /\ live' = live /\ tmp'[t] = NoHandle
                  /\ out'[t].ek = "connect"
                  /\ op[t] = "session" => pc'[t] = "idle" /\ out'[t].st = "err"
                  /\ op[t] = "query" => pc'[t] = "after" /\ out'[t].st = "raised"]_vars
    /\ [][\A t \in Threads :
              (pc[t] = "enter" /\ pc'[t] # "enter" /\ raw = NoHandle) =>
                  pc'[t] = "connect"]_vars
    /\ [][\A t \in Threads :
              (pc[t] = "connect" /\ pc'[t] # "connect") =>
                  connArgs' = kwargs /\ kwargs \in KwargSets]_vars

\* after a reset, the connect of a query's first attempt raised and the access
\* of its second attempt connected again with the construction kwargs
C24_Witness ==
    /\ op[1] = "query" /\ pc[1] = "store" /\ attempt[1] = 2
    /\ cnt[1].connfail = 1 /\ cnt[1].conn = 1 /\ cnt[1].exec = 0
    /\ kwargs = 2 /\ connArgs = 2 /\ raw = NoHandle

====
